---- MODULE Spec2Model ----
(***************************************************************************)
(* A model of the ToggleTown Go SDK client (toggletown/sdk-go).            *)
(*                                                                         *)
(* Six state machines share this module:                                  *)
(*   Spec      the client used from one goroutine: Initialize, Close, the  *)
(*             background poller (startPolling / fetchFlags /              *)
(*             checkStaleness) and the lock-protected readers, stepping at *)
(*             the granularity of the lock operations and the              *)
(*             unsynchronised field accesses;                              *)
(*   ConcSpec  the same client called from several goroutines at once;     *)
(*   EvalSpec  the pure evaluator (evaluateFlag, matchesRule, isInRollout) *)
(*             applied to inputs drawn from bounded sets;                  *)
(*   RolloutSpec  hashString and isInRollout on their own;                 *)
(*   AccessSpec   the four typed accessors on their own;                   *)
(*   MatchSpec    matchesRule on its own.                                  *)
(*                                                                         *)
(* The client code with staleness tracking is the listing in               *)
(* src/README.md (lines 293-688); the evaluator is in src/client.go        *)
(* (lines 315-493).                                                        *)
(***************************************************************************)
EXTENDS Integers, Sequences, FiniteSets, TLC

VARIABLES
    \* ---- Client fields (README.md 375-391)
    flags,          \* map[string]FlagConfig: the catalog
    mu,             \* sync.RWMutex: [w |-> holder of the write lock, r |-> read holders]
    initialized,    \* bool
    stopChan,       \* "open" | "closed"
    wg,             \* sync.WaitGroup counter
    lastUpdatedAt,  \* time.Time; 0 is the zero time ("never")
    staleFired,     \* bool
    \* ---- configuration fixed by NewClient
    hasOnError,     \* c.onError != nil
    hasOnStale,     \* c.onStale != nil
    \* ---- environment
    now,            \* the wall clock, time.Now()
    panicked,       \* a goroutine panicked: the Go runtime ends the program
    \* ---- goroutines
    callers,        \* foreground goroutines: [pc, resp, ret, arg]
    pollers,        \* polling goroutines started by startPolling
    \* ---- history (observation only; no action's guard reads it)
    hist,
    \* ---- the evaluator's harness (EvalSpec)
    evIn,           \* [config, context]
    evOut,          \* the value evaluateFlag returned
    evPc            \* "off" (client runs) | "<harness>_ready" | "<harness>_done"

vars == <<flags, mu, initialized, stopChan, wg, lastUpdatedAt, staleFired,
          hasOnError, hasOnStale, now, panicked, callers, pollers, hist,
          evIn, evOut, evPc>>

clientVars == <<flags, mu, initialized, stopChan, wg, lastUpdatedAt, staleFired,
                hasOnError, hasOnStale, now, panicked, callers, pollers, hist>>

evalVars == <<evIn, evOut, evPc>>

(***************************************************************************)
(* Values: Go's interface{} as a tagged union.  Every value record has the *)
(* same fields so that any two values can be compared.                     *)
(*   t : "nil" | "bool" | "string" | "number" | "list" | "map"             *)
(* Numbers are float64 values that are integers of magnitude below 10^6    *)
(* (the range in which %v prints a float64 without an exponent).           *)
(***************************************************************************)
VNil == [t |-> "nil", b |-> FALSE, s |-> "", n |-> 0, l |-> <<>>, m |-> <<>>]

VBool(x) == [VNil EXCEPT !.t = "bool", !.b = x]

VStr(x) == [VNil EXCEPT !.t = "string", !.s = x]

VNum(x) == [VNil EXCEPT !.t = "number", !.n = x]

VList(x) == [VNil EXCEPT !.t = "list", !.l = x]

VMap(x) == [VNil EXCEPT !.t = "map", !.m = x]

\* The absent entry of a Go map: m[k] with "ok" false.
Absent == [VNil EXCEPT !.t = "absent"]

Lookup(f, k) == IF k \in DOMAIN f THEN f[k] ELSE Absent

(***************************************************************************)
(* Library functions.                                                      *)
(***************************************************************************)
Digit(d) == CASE d = 0 -> "0" [] d = 1 -> "1" [] d = 2 -> "2" [] d = 3 -> "3"
              [] d = 4 -> "4" [] d = 5 -> "5" [] d = 6 -> "6" [] d = 7 -> "7"
              [] d = 8 -> "8" [] OTHER -> "9"

RECURSIVE NumStr(_)
\* strconv / fmt %v of an integral float64 below 10^6 in magnitude.
NumStr(x) == IF x < 0 THEN "-" \o NumStr(0 - x)
             ELSE IF x < 10 THEN Digit(x)
             ELSE NumStr(x \div 10) \o Digit(x % 10)

\* The numbers whose decimal form strconv.ParseFloat is asked to read back.
NumRange == -20 .. 120

\* strconv.ParseFloat(s, 64) with its error dropped: 0 for a non-numeric string.
ParseFloat(str) == IF \E x \in NumRange : NumStr(x) = str
                   THEN CHOOSE x \in NumRange : NumStr(x) = str
                   ELSE 0

RECURSIVE JoinSprint(_, _)
\* fmt.Sprintf("%v", v)
Sprint(v) == CASE v.t = "bool" -> (IF v.b THEN "true" ELSE "false")
               [] v.t = "string" -> v.s
               [] v.t = "number" -> NumStr(v.n)
               [] v.t = "list" -> "[" \o JoinSprint(v.l, 1) \o "]"
               [] OTHER -> "<nil>"

JoinSprint(l, i) == IF i > Len(l) THEN ""
                    ELSE IF i = Len(l) THEN Sprint(l[i])
                    ELSE Sprint(l[i]) \o " " \o JoinSprint(l, i + 1)

\* strings.Contains(a, b) on the strings the model uses: the proper,
\* non-empty substring pairs are listed; every string contains itself and "".
SubstringPairs == {<<"user@company.com", "@company.com">>,
                   <<"user@company.com", "user">>,
                   <<"user@other.com", "user">>,
                   <<"pro", "ro">>, <<"free", "re">>}

Contains(a, b) == b = "" \/ a = b \/ <<a, b>> \in SubstringPairs

\* sha256.Sum256([]byte(input)): the first four digest bytes h[0..3] of the
\* inputs the model uses (computed with SHA-256).
Sha256Prefix(input) ==
    CASE input = "u1:f1" -> <<102, 86, 206, 161>>   \* bucket 25
      [] input = "u1:f2" -> <<76, 47, 186, 121>>   \* bucket 45
      [] input = "u2:f1" -> <<242, 140, 158, 155>>   \* bucket 15
      [] input = "u2:f2" -> <<231, 170, 207, 43>>   \* bucket 51
      [] input = "u3:f1" -> <<162, 194, 77, 64>>   \* bucket 52
      [] input = "u3:f2" -> <<50, 130, 157, 120>>   \* bucket 92
      [] input = ":f1" -> <<168, 250, 238, 78>>   \* bucket 94
      [] input = ":f2" -> <<198, 244, 143, 53>>   \* bucket 13
      [] input = "user-123:flag" -> <<14, 130, 20, 225>>   \* bucket 49
      [] input = "user-123:my-flag" -> <<187, 205, 135, 6>>   \* bucket 38

\* hashString: uint32(h[0])<<24 | uint32(h[1])<<16 | uint32(h[2])<<8 | uint32(h[3]),
\* then num % 100.  Only the remainder is needed, so it is
\* taken byte by byte: 2^24, 2^16 and 2^8 are 16, 36 and 56
\* modulo 100.
\* A slip: the four bytes are read as a signed 32-bit integer, whose Go
\* remainder is negative when the top bit is set (2^32 is 96 modulo 100).
hashString_Signed(input) ==
    LET h == Sha256Prefix(input)
        u == (h[1] * 16 + h[2] * 36 + h[3] * 56 + h[4]) % 100
    IN  IF h[1] >= 128 THEN 0 - ((196 - u) % 100) ELSE u

hashString(input) ==
    LET h == Sha256Prefix(input)
    IN  (h[1] * 16 + h[2] * 36 + h[3] * 56 + h[4]) % 100

\* A slip: the bucket equal to the percentage is included.
isInRollout_Inclusive(userID, flagKey, percentage) ==
    IF percentage = 0 THEN FALSE
    ELSE IF percentage >= 100 THEN TRUE
    ELSE hashString(userID \o ":" \o flagKey) <= percentage

\* A slip: a percentage above 100 is rejected.
isInRollout_RejectsAbove100(userID, flagKey, percentage) ==
    IF percentage = 0 \/ percentage > 100 THEN FALSE
    ELSE IF percentage = 100 THEN TRUE
    ELSE hashString(userID \o ":" \o flagKey) < percentage

\* isInRollout (client.go 333-342)
isInRollout(userID, flagKey, percentage) ==
    IF percentage = 0 THEN FALSE
    ELSE IF percentage >= 100 THEN TRUE
    ELSE hashString(userID \o ":" \o flagKey) < percentage

\* toFloat: numbers pass through, strings are parsed, every other type is 0.
toFloat(v) == CASE v.t = "number" -> v.n
                [] v.t = "string" -> ParseFloat(v.s)
                [] OTHER -> 0

\* The "in" / "not_in" loop: some item of the list prints like attrValue.
InList(attrValue, list) ==
    \E i \in 1 .. Len(list) : Sprint(attrValue) = Sprint(list[i])

(***************************************************************************)
(* matchesRule (client.go 345-414).  A Rule is                             *)
(*   [attribute, operator, value, hasPercentage, percentage, rollValue];   *)
(* a nil *int Percentage is hasPercentage = FALSE, a nil RollValue is VNil.*)
(* A context is a function from attribute names to values.                 *)
(***************************************************************************)
\* client.go 350-362: context[attribute], else context["attributes"][attribute].
attrLookup(rule, context) ==
    IF rule.attribute \in DOMAIN context
    THEN context[rule.attribute]
    ELSE IF Lookup(context, "attributes").t = "map"
         THEN Lookup(context["attributes"].m, rule.attribute)
         ELSE Absent

\* client.go 364-413: the operator switch, on an attribute that was found.
matchesOperator(operator, attrValue, ruleValue) ==
    CASE operator = "equals" -> Sprint(attrValue) = Sprint(ruleValue)
      [] operator = "not_equals" -> Sprint(attrValue) # Sprint(ruleValue)
      [] operator = "contains" ->
            IF attrValue.t = "string" /\ ruleValue.t = "string"
            THEN Contains(attrValue.s, ruleValue.s) ELSE FALSE
      [] operator = "not_contains" ->
            IF attrValue.t = "string" /\ ruleValue.t = "string"
            THEN ~Contains(attrValue.s, ruleValue.s) ELSE FALSE
      [] operator = "gt" -> toFloat(attrValue) > toFloat(ruleValue)
      [] operator = "lt" -> toFloat(attrValue) < toFloat(ruleValue)
      [] operator = "in" ->
            IF ruleValue.t = "list" THEN InList(attrValue, ruleValue.l) ELSE FALSE
      [] operator = "not_in" ->
            IF ruleValue.t = "list" THEN ~InList(attrValue, ruleValue.l) ELSE TRUE
      [] operator = "always" -> TRUE
      [] OTHER -> FALSE

\* A slip: the negated operators match when the attribute is missing.
matchesRule_NegationsPassAbsent(rule, context) ==
    LET attrValue == attrLookup(rule, context)
    IN  IF attrValue.t = "absent"
        THEN rule.operator \in {"not_equals", "not_contains", "not_in"}
        ELSE matchesOperator(rule.operator, attrValue, rule.value)

\* matchesRule (client.go 345-414): the lookup, then the operator switch.
matchesRule(rule, context) ==
    LET attrValue == attrLookup(rule, context)
    IN  IF attrValue.t = "absent" THEN FALSE
        ELSE matchesOperator(rule.operator, attrValue, rule.value)

\* getOffValue (client.go 436-449)
getOffValue(flagType) ==
    CASE flagType = "BOOLEAN" -> VBool(FALSE)
      [] flagType = "STRING" -> VStr("")
      [] flagType = "NUMBER" -> VNum(0)
      [] flagType = "JSON" -> VNil
      [] OTHER -> VNil

\* client.go 457-463: context["user_id"].(string), else context["userId"].(string).
userIDOf(context) ==
    IF Lookup(context, "user_id").t = "string" THEN context["user_id"].s
    ELSE IF Lookup(context, "userId").t = "string" THEN context["userId"].s
    ELSE ""

\* A slip: the percentage gate hashes an empty user id like any other.
ruleQualifies_HashesEmptyUser(rule, config, context, userID) ==
    /\ matchesRule(rule, context)
    /\ ~(/\ rule.hasPercentage
         /\ rule.percentage < 100
         /\ ~isInRollout(userID, config.key, rule.percentage))

\* client.go 467-476: the rule matches and passes its own percentage gate.
ruleQualifies(rule, config, context, userID) ==
    /\ matchesRule(rule, context)
    /\ ~(/\ rule.hasPercentage
         /\ rule.percentage < 100
         /\ (userID = "" \/ ~isInRollout(userID, config.key, rule.percentage)))

\* A slip: the global rollout hashes an empty user id like any other.
evaluateRollout_HashesEmptyUser(config, userID) ==
    IF config.rolloutPercentage > 0
    THEN IF isInRollout(userID, config.key, config.rolloutPercentage)
         THEN config.defaultValue
         ELSE getOffValue(config.type)
    ELSE config.defaultValue

\* client.go 484-492: no rule qualified.
evaluateRollout(config, userID) ==
    IF config.rolloutPercentage > 0 /\ userID # ""
    THEN IF isInRollout(userID, config.key, config.rolloutPercentage)
         THEN config.defaultValue
         ELSE getOffValue(config.type)
    ELSE config.defaultValue

RECURSIVE evaluateRules_LastWins(_, _, _, _)
\* A slip: a later qualifying rule overrides an earlier one.
evaluateRules_LastWins(config, context, userID, i) ==
    LET n == Len(config.rules)
        Q == {j \in i .. n : ruleQualifies(config.rules[j], config, context, userID)}
    IN  IF Q = {} THEN evaluateRollout(config, userID)
        ELSE LET j == CHOOSE x \in Q : \A y \in Q : y <= x
             IN  IF config.rules[j].rollValue # VNil
                 THEN config.rules[j].rollValue
                 ELSE config.defaultValue

RECURSIVE evaluateRules(_, _, _, _)
\* client.go 465-482: the loop over config.Rules from index i on.
evaluateRules(config, context, userID, i) ==
    IF i > Len(config.rules) THEN evaluateRollout(config, userID)
    ELSE IF ~ruleQualifies(config.rules[i], config, context, userID)
         THEN evaluateRules(config, context, userID, i + 1)
         ELSE IF config.rules[i].rollValue # VNil
              THEN config.rules[i].rollValue
              ELSE config.defaultValue

\* A slip: a disabled flag yields the off value of its type.
evaluateFlag_DisabledOff(config, context) ==
    IF ~config.enabled THEN getOffValue(config.type)
    ELSE evaluateRules(config, context, userIDOf(context), 1)

\* evaluateFlag (client.go 452-493)
evaluateFlag(config, context) ==
    IF ~config.enabled THEN config.defaultValue
    ELSE evaluateRules(config, context, userIDOf(context), 1)

(***************************************************************************)
(* Bounds of the client model.                                             *)
(***************************************************************************)
\* Foreground goroutines that call the client's methods.
NumCallers == 2

\* The clock runs from 1 to MaxTime.
MaxTime == 5

\* The clock of the concurrent program runs from 1 to ConcMaxTime.
ConcMaxTime == 3

\* c.maxStaleAge as the caller configured it (Config.MaxStaleAge, README.md
\* 418-420), in clock units.
maxStaleAge == 1

Callers == 1 .. NumCallers

(***************************************************************************)
(* The catalogs the server answers with.                                   *)
(***************************************************************************)
FlagF1 == [key |-> "f1", type |-> "BOOLEAN", enabled |-> TRUE,
           defaultValue |-> VBool(TRUE), rules |-> <<>>, rolloutPercentage |-> 0]

FlagF2 == [key |-> "f2", type |-> "STRING", enabled |-> FALSE,
           defaultValue |-> VStr("pro"), rules |-> <<>>, rolloutPercentage |-> 0]

CatalogA == [k \in {"f1"} |-> FlagF1]

CatalogB == [k \in {"f2"} |-> FlagF2]

NoFlags == [k \in {} |-> FlagF1]

Payloads == {CatalogA, CatalogB}

Keys == {"f1", "f2"}

\* The ways one fetch can fail: http.NewRequest, httpClient.Do, a status other
\* than 200, json Decode.
FailureCauses == {"request", "transport", "status", "decode"}

NoResp == [kind |-> "none", flags |-> NoFlags]

Failed(cause) == [kind |-> cause, flags |-> NoFlags]

Fetched(payload) == [kind |-> "ok", flags |-> payload]

FetchOutcomes == {Failed(c) : c \in FailureCauses} \cup {Fetched(f) : f \in Payloads}

(***************************************************************************)
(* Goroutines and the lock.                                                *)
(***************************************************************************)
NoHolder == <<"none", 0>>

CallerId(p) == <<"caller", p>>

PollerId(k) == <<"poller", k>>

\* mu.Lock() can return: nobody holds the lock in either mode.
CanLock == mu.w = NoHolder /\ mu.r = {}

\* A slip: the shared lock is granted while a writer holds the lock.
CanRLock_IgnoresWriter == TRUE

\* mu.RLock() can return: nobody holds the write lock.
CanRLock == mu.w = NoHolder

\* What a call returned.  For a returned map, shared says whether it is the
\* very map object c.flags refers to.
NoRet == [code |-> "none", val |-> VNil, cat |-> NoFlags, shared |-> FALSE]

RetCode(c) == [NoRet EXCEPT !.code = c]

IdleCaller == [pc |-> "idle", resp |-> NoResp, ret |-> NoRet, arg |-> ""]

\* No stale callback is running.
NoStaleArgs == [at |-> 0, age |-> 0]

\* errN, chkN and done observe the refresh in progress or just finished: the
\* error callbacks and staleness checks it made, and how it ended.
\* stale holds the arguments of c.onStale while the callback runs.
UnusedPoller == [pc |-> "unused", resp |-> NoResp, errN |-> 0, chkN |-> 0,
                 done |-> "none", stale |-> NoStaleArgs]

\* The context the foreground callers evaluate with.
CallerContext == [a \in {"user_id"} |-> VStr("u1")]

Cap(x, limit) == IF x > limit THEN limit ELSE x

\* The client as NewClient returns it (README.md 394-427), before any call.
NewClient ==
    /\ flags = NoFlags
    /\ mu = [w |-> NoHolder, r |-> {}]
    /\ initialized = FALSE
    /\ stopChan = "open"
    /\ wg = 0
    /\ lastUpdatedAt = 0
    /\ staleFired = FALSE
    /\ now = 1
    /\ panicked = FALSE
    /\ callers = [p \in Callers |-> IdleCaller]
    /\ pollers = [k \in Callers |-> UnusedPoller]
    /\ hist = [lastPayload |-> NoFlags, lastAt |-> 0,
               closeReturned |-> FALSE, onErrorCalled |-> FALSE,
               staleInEpisode |-> 0, staleCalls |-> 0]

\* Either callback may be configured or left nil.
Init ==
    /\ NewClient
    /\ hasOnError \in BOOLEAN
    /\ hasOnStale \in BOOLEAN
    /\ evIn = [config |-> FlagF1, context |-> CallerContext]
    /\ evOut = VNil
    /\ evPc = "off"

(***************************************************************************)
(* Helpers of the actions.                                                 *)
(***************************************************************************)
SetCaller(p, rec) == callers' = [callers EXCEPT ![p] = rec]

SetPoller(k, rec) == pollers' = [pollers EXCEPT ![k] = rec]

Alive == ~panicked

configVars == <<hasOnError, hasOnStale>>

\* The assignment c.flags = flagsResp.Flags (README.md 483, 532): the new
\* catalog given the old one and the decoded payload.
storeFlags_Merge(old, new) ==
    [k \in DOMAIN old \cup DOMAIN new |-> IF k \in DOMAIN new THEN new[k] ELSE old[k]]

storeFlags(old, new) == new

\* The exclusive section that ends a successful fetch (README.md 482-486 and
\* 531-535), first half: c.mu.Lock(); c.flags = flagsResp.Flags.
StoreFlags(payload, holder) ==
    /\ CanLock
    /\ mu' = [mu EXCEPT !.w = holder]
    /\ flags' = storeFlags(flags, payload)
    /\ hist' = [hist EXCEPT !.lastPayload = payload]
    /\ UNCHANGED <<lastUpdatedAt, staleFired>>

\* A slip: a successful fetch leaves staleFired as it was.
StoreMeta_KeepsLatch(holder) ==
    /\ mu.w = holder
    /\ mu' = [mu EXCEPT !.w = NoHolder]
    /\ lastUpdatedAt' = now
    /\ staleFired' = staleFired
    /\ hist' = [hist EXCEPT !.lastAt = now, !.staleInEpisode = 0]
    /\ UNCHANGED flags

\* Second half: c.lastUpdatedAt = time.Now(); c.staleFired = false;
\* c.mu.Unlock().
StoreMeta(holder) ==
    /\ mu.w = holder
    /\ mu' = [mu EXCEPT !.w = NoHolder]
    /\ lastUpdatedAt' = now
    /\ staleFired' = FALSE
    /\ hist' = [hist EXCEPT !.lastAt = now, !.staleInEpisode = 0]
    /\ UNCHANGED flags

(***************************************************************************)
(* Initialize (README.md 430-443) and fetchFlagsInitial (458-489).         *)
(***************************************************************************)
\* Initialize is called; its first statement is about to read c.initialized.
CallInitialize(p) ==
    /\ Alive /\ callers[p].pc = "idle"
    /\ SetCaller(p, [IdleCaller EXCEPT !.pc = "init_check"])
    /\ UNCHANGED <<flags, mu, initialized, stopChan, wg, lastUpdatedAt, staleFired,
                   configVars, now, panicked, pollers, hist, evalVars>>

\* if c.initialized { return nil }: the field is read without the lock.
InitCheck(p) ==
    /\ Alive /\ callers[p].pc = "init_check"
    /\ IF initialized
       THEN SetCaller(p, [callers[p] EXCEPT !.pc = "idle", !.ret = RetCode("nil")])
       ELSE SetCaller(p, [callers[p] EXCEPT !.pc = "init_fetch"])
    /\ UNCHANGED <<flags, mu, initialized, stopChan, wg, lastUpdatedAt, staleFired,
                   configVars, now, panicked, pollers, hist, evalVars>>

\* A slip: the failed initial fetch is reported to the error callback too.
InitFetch_Reports(p, outcome) ==
    /\ Alive /\ callers[p].pc = "init_fetch"
    /\ IF outcome.kind = "ok"
       THEN /\ SetCaller(p, [callers[p] EXCEPT !.pc = "init_lock", !.resp = outcome])
            /\ UNCHANGED hist
       ELSE /\ SetCaller(p, [callers[p] EXCEPT !.pc = "idle", !.ret = RetCode("err")])
            /\ hist' = [hist EXCEPT !.onErrorCalled = @ \/ hasOnError]
    /\ UNCHANGED <<flags, mu, initialized, stopChan, wg, lastUpdatedAt, staleFired,
                   configVars, now, panicked, pollers, evalVars>>

\* The request of fetchFlagsInitial, up to the decoded response.  A failure
\* returns the error, and Initialize returns it at once.
InitFetch(p, outcome) ==
    /\ Alive /\ callers[p].pc = "init_fetch"
    /\ IF outcome.kind = "ok"
       THEN SetCaller(p, [callers[p] EXCEPT !.pc = "init_lock", !.resp = outcome])
       ELSE SetCaller(p, [callers[p] EXCEPT !.pc = "idle", !.ret = RetCode("err")])
    /\ UNCHANGED <<flags, mu, initialized, stopChan, wg, lastUpdatedAt, staleFired,
                   configVars, now, panicked, pollers, hist, evalVars>>

\* fetchFlagsInitial: c.mu.Lock(); c.flags = flagsResp.Flags
InitStore(p) ==
    /\ Alive /\ callers[p].pc = "init_lock"
    /\ StoreFlags(callers[p].resp.flags, CallerId(p))
    /\ SetCaller(p, [callers[p] EXCEPT !.pc = "init_meta", !.resp = NoResp])
    /\ UNCHANGED <<initialized, stopChan, wg, configVars, now, panicked, pollers,
                   evalVars>>

\* c.lastUpdatedAt = time.Now(); c.staleFired = false; c.mu.Unlock();
\* return nil
InitStoreMeta(p) ==
    /\ Alive /\ callers[p].pc = "init_meta"
    /\ StoreMeta(CallerId(p))
    /\ SetCaller(p, [callers[p] EXCEPT !.pc = "init_set"])
    /\ UNCHANGED <<initialized, stopChan, wg, configVars, now, panicked, pollers,
                   evalVars>>

\* c.initialized = true: the field is written without the lock.
InitSetInitialized(p) ==
    /\ Alive /\ callers[p].pc = "init_set"
    /\ initialized' = TRUE
    /\ SetCaller(p, [callers[p] EXCEPT !.pc = "init_start"])
    /\ UNCHANGED <<flags, mu, stopChan, wg, lastUpdatedAt, staleFired,
                   configVars, now, panicked, pollers, hist, evalVars>>

\* startPolling (README.md 589-605): wg.Add(1) and the go statement; then
\* Initialize returns nil.  The goroutine caller p starts is pollers[p]: a
\* caller starts at most one, since its own Initialize has set c.initialized.
InitStartPolling(p) ==
    /\ Alive /\ callers[p].pc = "init_start"
    /\ SetPoller(p, [UnusedPoller EXCEPT !.pc = "select"])
    /\ wg' = wg + 1
    /\ SetCaller(p, [callers[p] EXCEPT !.pc = "idle", !.ret = RetCode("nil")])
    /\ UNCHANGED <<flags, mu, initialized, stopChan, lastUpdatedAt, staleFired,
                   configVars, now, panicked, hist, evalVars>>

(***************************************************************************)
(* Close (README.md 451-456).                                              *)
(***************************************************************************)
\* if c.stopChan != nil { close(c.stopChan) ...: stopChan is never nil after
\* NewClient, and closing a closed channel panics.
CloseChan(p) ==
    /\ Alive /\ callers[p].pc = "idle"
    /\ IF stopChan = "closed"
       THEN /\ panicked' = TRUE
            /\ SetCaller(p, [IdleCaller EXCEPT !.pc = "panic"])
            /\ UNCHANGED stopChan
       ELSE /\ stopChan' = "closed"
            /\ SetCaller(p, [IdleCaller EXCEPT !.pc = "close_wait"])
            /\ UNCHANGED panicked
    /\ UNCHANGED <<flags, mu, initialized, wg, lastUpdatedAt, staleFired,
                   configVars, now, pollers, hist, evalVars>>

\* c.wg.Wait() returns when the counter is zero; then Close returns.
CloseWait(p) ==
    /\ Alive /\ callers[p].pc = "close_wait"
    /\ wg = 0
    /\ SetCaller(p, [callers[p] EXCEPT !.pc = "idle", !.ret = RetCode("closed")])
    /\ hist' = [hist EXCEPT !.closeReturned = TRUE]
    /\ UNCHANGED <<flags, mu, initialized, stopChan, wg, lastUpdatedAt, staleFired,
                   configVars, now, panicked, pollers, evalVars>>

(***************************************************************************)
(* The polling goroutine (startPolling, README.md 589-605), fetchFlags     *)
(* (491-536) and checkStaleness (538-551).                                 *)
(***************************************************************************)
\* A slip: fetchFlags takes the lock before it sends the request.
PollTick_LocksFirst(k) ==
    /\ Alive /\ pollers[k].pc = "select"
    /\ CanLock
    /\ mu' = [mu EXCEPT !.w = PollerId(k)]
    /\ SetPoller(k, [UnusedPoller EXCEPT !.pc = "fetch"])
    /\ UNCHANGED <<flags, initialized, stopChan, wg, lastUpdatedAt, staleFired,
                   configVars, now, panicked, callers, hist, evalVars>>

\* case <-ticker.C: c.fetchFlags().  When the stop channel is closed as well,
\* select takes either ready case.
PollTick(k) ==
    /\ Alive /\ pollers[k].pc = "select"
    /\ SetPoller(k, [UnusedPoller EXCEPT !.pc = "fetch"])
    /\ UNCHANGED <<flags, mu, initialized, stopChan, wg, lastUpdatedAt, staleFired,
                   configVars, now, panicked, callers, hist, evalVars>>

\* case <-c.stopChan: return, and the deferred wg.Done().
PollStop(k) ==
    /\ Alive /\ pollers[k].pc = "select"
    /\ stopChan = "closed"
    /\ SetPoller(k, [UnusedPoller EXCEPT !.pc = "done"])
    /\ wg' = wg - 1
    /\ UNCHANGED <<flags, mu, initialized, stopChan, lastUpdatedAt, staleFired,
                   configVars, now, panicked, callers, hist, evalVars>>

\* The request of fetchFlags, up to the decoded response.
PollFetch(k, outcome) ==
    /\ Alive /\ pollers[k].pc = "fetch"
    /\ SetPoller(k, [pollers[k] EXCEPT
                        !.resp = outcome,
                        !.pc = IF outcome.kind = "ok" THEN "lock" ELSE "on_error"])
    /\ UNCHANGED <<flags, mu, initialized, stopChan, wg, lastUpdatedAt, staleFired,
                   configVars, now, panicked, callers, hist, evalVars>>

\* A slip: the decode failure branch returns without the staleness check.
afterOnError_DecodeReturns(cause) == IF cause = "decode" THEN "select" ELSE "check_lock"

\* Where each failure branch of fetchFlags goes after the error callback
\* (README.md 497, 508, 518, 527): c.checkStaleness().
afterOnError(cause) == "check_lock"

\* if c.onError != nil { c.onError(err) }: the callback, if there is one,
\* returns, having called the client ("on_error_ret") or not.
PollOnError(k) ==
    /\ Alive /\ pollers[k].pc \in {"on_error", "on_error_ret"}
    /\ LET next == afterOnError(pollers[k].resp.kind)
       IN  SetPoller(k, [pollers[k] EXCEPT
                            !.pc = next,
                            !.resp = NoResp,
                            !.errN = IF hasOnError THEN @ + 1 ELSE @,
                            !.done = IF next = "select" THEN "fail" ELSE @])
    /\ hist' = [hist EXCEPT !.onErrorCalled = @ \/ hasOnError]
    /\ UNCHANGED <<flags, mu, initialized, stopChan, wg, lastUpdatedAt, staleFired,
                   configVars, now, panicked, callers, evalVars>>

\* A slip: the alarm is not latched.
staleAlarmDue_Unlatched(age, fired) == age > maxStaleAge

\* README.md 545: age > c.maxStaleAge && !c.staleFired
staleAlarmDue(age, fired) == age > maxStaleAge /\ ~fired

\* A slip: the callback is given the time of the check, not of the last fetch.
staleArgs_TimeOfCheck(updatedAt, age, clock) == [at |-> clock, age |-> age]

\* README.md 548: c.onStale(c.lastUpdatedAt, age)
staleArgs(updatedAt, age, clock) == [at |-> updatedAt, age |-> age]

\* A slip: checkStaleness unlocks before it calls the stale callback.
PollCheckStaleness_UnlocksFirst(k) ==
    /\ Alive /\ pollers[k].pc = "check_lock"
    /\ CanLock
    /\ LET age == now - lastUpdatedAt
           due == lastUpdatedAt # 0 /\ staleAlarmDue(age, staleFired)
       IN  /\ staleFired' = IF due THEN TRUE ELSE staleFired
           /\ IF due /\ hasOnStale
              THEN /\ SetPoller(k, [pollers[k] EXCEPT
                                       !.pc = "on_stale", !.chkN = @ + 1,
                                       !.stale = staleArgs(lastUpdatedAt, age, now)])
                   /\ hist' = [hist EXCEPT !.staleInEpisode = Cap(@ + 1, 2),
                                           !.staleCalls = Cap(@ + 1, 2)]
              ELSE /\ SetPoller(k, [pollers[k] EXCEPT !.pc = "select", !.chkN = @ + 1,
                                                      !.done = "fail"])
                   /\ UNCHANGED hist
    /\ UNCHANGED <<flags, mu, initialized, stopChan, wg, lastUpdatedAt,
                   configVars, now, panicked, callers, evalVars>>

\* checkStaleness: c.mu.Lock() and the body under the lock.  With a stale
\* callback to call, the lock stays held while the callback runs; otherwise
\* the deferred Unlock ends the section in the same step.
PollCheckStaleness(k) ==
    /\ Alive /\ pollers[k].pc = "check_lock"
    /\ CanLock
    /\ LET age == now - lastUpdatedAt
           due == lastUpdatedAt # 0 /\ staleAlarmDue(age, staleFired)
       IN  /\ staleFired' = IF due THEN TRUE ELSE staleFired
           /\ IF due /\ hasOnStale
              THEN /\ SetPoller(k, [pollers[k] EXCEPT
                                       !.pc = "on_stale", !.chkN = @ + 1,
                                       !.stale = staleArgs(lastUpdatedAt, age, now)])
                   /\ mu' = [mu EXCEPT !.w = PollerId(k)]
                   /\ hist' = [hist EXCEPT !.staleInEpisode = Cap(@ + 1, 2),
                                           !.staleCalls = Cap(@ + 1, 2)]
              ELSE /\ SetPoller(k, [pollers[k] EXCEPT !.pc = "select", !.chkN = @ + 1,
                                                      !.done = "fail"])
                   /\ UNCHANGED <<mu, hist>>
    /\ UNCHANGED <<flags, initialized, stopChan, wg, lastUpdatedAt,
                   configVars, now, panicked, callers, evalVars>>

\* c.onStale returns, having called the client ("on_stale_ret") or not; the
\* deferred c.mu.Unlock(); fetchFlags returns.
PollOnStaleReturn(k) ==
    /\ Alive /\ pollers[k].pc \in {"on_stale", "on_stale_ret"}
    /\ mu' = [mu EXCEPT !.w = NoHolder]
    /\ SetPoller(k, [pollers[k] EXCEPT !.pc = "select", !.done = "fail",
                                       !.stale = NoStaleArgs])
    /\ UNCHANGED <<flags, initialized, stopChan, wg, lastUpdatedAt, staleFired,
                   configVars, now, panicked, callers, hist, evalVars>>

(***************************************************************************)
(* A callback that calls back into the client.  The callbacks are the      *)
(* caller's code, run by the polling goroutine (README.md 494-496,         *)
(* 547-549); one that reads the client calls c.GetStatus(), which like     *)
(* every reader starts with c.mu.RLock() (572).                            *)
(***************************************************************************)
\* The error callback calls c.GetStatus() and waits for c.mu.RLock().
PollOnErrorCalls(k) ==
    /\ Alive /\ pollers[k].pc = "on_error"
    /\ hasOnError
    /\ SetPoller(k, [pollers[k] EXCEPT !.pc = "on_error_rlock"])
    /\ UNCHANGED <<flags, mu, initialized, stopChan, wg, lastUpdatedAt, staleFired,
                   configVars, now, panicked, callers, hist, evalVars>>

\* The stale callback calls c.GetStatus() and waits for c.mu.RLock().
PollOnStaleCalls(k) ==
    /\ Alive /\ pollers[k].pc = "on_stale"
    /\ SetPoller(k, [pollers[k] EXCEPT !.pc = "on_stale_rlock"])
    /\ UNCHANGED <<flags, mu, initialized, stopChan, wg, lastUpdatedAt, staleFired,
                   configVars, now, panicked, callers, hist, evalVars>>

\* c.mu.RLock() of the GetStatus a callback called returns: no goroutine, the
\* calling one included, holds the write lock.
CallbackRLock(k) ==
    /\ Alive /\ pollers[k].pc \in {"on_error_rlock", "on_stale_rlock"}
    /\ CanRLock
    /\ mu' = [mu EXCEPT !.r = @ \cup {PollerId(k)}]
    /\ SetPoller(k, [pollers[k] EXCEPT
                        !.pc = IF @ = "on_error_rlock" THEN "on_error_read"
                               ELSE "on_stale_read"])
    /\ UNCHANGED <<flags, initialized, stopChan, wg, lastUpdatedAt, staleFired,
                   configVars, now, panicked, callers, hist, evalVars>>

\* The GetStatus a callback called reads, unlocks and returns to the callback.
CallbackRead(k) ==
    /\ Alive /\ pollers[k].pc \in {"on_error_read", "on_stale_read"}
    /\ mu' = [mu EXCEPT !.r = @ \ {PollerId(k)}]
    /\ SetPoller(k, [pollers[k] EXCEPT
                        !.pc = IF @ = "on_error_read" THEN "on_error_ret"
                               ELSE "on_stale_ret"])
    /\ UNCHANGED <<flags, initialized, stopChan, wg, lastUpdatedAt, staleFired,
                   configVars, now, panicked, callers, hist, evalVars>>

\* fetchFlags, success: c.mu.Lock(); c.flags = flagsResp.Flags
PollStore(k) ==
    /\ Alive /\ pollers[k].pc = "lock"
    /\ StoreFlags(pollers[k].resp.flags, PollerId(k))
    /\ SetPoller(k, [pollers[k] EXCEPT !.pc = "meta", !.resp = NoResp])
    /\ UNCHANGED <<initialized, stopChan, wg, configVars, now, panicked, callers,
                   evalVars>>

\* c.lastUpdatedAt = time.Now(); c.staleFired = false; c.mu.Unlock()
PollStoreMeta(k) ==
    /\ Alive /\ pollers[k].pc = "meta"
    /\ StoreMeta(PollerId(k))
    /\ SetPoller(k, [pollers[k] EXCEPT !.pc = "select", !.done = "ok"])
    /\ UNCHANGED <<initialized, stopChan, wg, configVars, now, panicked, callers,
                   evalVars>>

(***************************************************************************)
(* The readers.                                                            *)
(***************************************************************************)
\* IsInitialized is called (README.md 446-448).
CallIsInitialized(p) ==
    /\ Alive /\ callers[p].pc = "idle"
    /\ SetCaller(p, [IdleCaller EXCEPT !.pc = "isinit"])
    /\ UNCHANGED <<flags, mu, initialized, stopChan, wg, lastUpdatedAt, staleFired,
                   configVars, now, panicked, pollers, hist, evalVars>>

\* return c.initialized: the field is read without the lock.
IsInitializedRead(p) ==
    /\ Alive /\ callers[p].pc = "isinit"
    /\ SetCaller(p, [callers[p] EXCEPT
                        !.pc = "idle",
                        !.ret = RetCode(IF initialized THEN "true" ELSE "false")])
    /\ UNCHANGED <<flags, mu, initialized, stopChan, wg, lastUpdatedAt, staleFired,
                   configVars, now, panicked, pollers, hist, evalVars>>

\* The methods that read under c.mu.RLock(): GetAllFlags, GetStatus, IsStale,
\* GetLastUpdatedAt and the typed accessor GetBooleanFlag.
ReaderOps == {"all", "status", "isstale", "updated", "get"}

\* GetAllFlags ("all"), GetStatus ("status"), IsStale ("isstale"),
\* GetLastUpdatedAt ("updated") or GetBooleanFlag(key, false, CallerContext)
\* ("get") is called and its c.mu.RLock() returns.
ReaderRLock(p, op, key) ==
    /\ Alive /\ callers[p].pc = "idle"
    /\ op \in ReaderOps
    /\ (op = "get") = (key \in Keys)
    /\ CanRLock
    /\ mu' = [mu EXCEPT !.r = @ \cup {CallerId(p)}]
    /\ SetCaller(p, [IdleCaller EXCEPT !.pc = op \o "_read", !.arg = key])
    /\ UNCHANGED <<flags, initialized, stopChan, wg, lastUpdatedAt, staleFired,
                   configVars, now, panicked, pollers, hist, evalVars>>

\* A slip: GetAllFlags hands out the client's own map.
allFlagsResult_Alias(f) == [cat |-> f, shared |-> TRUE]

\* GetAllFlags (README.md 683-687): a map made by make(), filled key by key.
allFlagsResult(f) == [cat |-> [k \in DOMAIN f |-> f[k]], shared |-> FALSE]

\* GetAllFlags (README.md 679-688): the copy loop, then the deferred RUnlock.
GetAllFlagsRead(p) ==
    /\ Alive /\ callers[p].pc = "all_read"
    /\ mu' = [mu EXCEPT !.r = @ \ {CallerId(p)}]
    /\ LET result == allFlagsResult(flags)
       IN  SetCaller(p, [IdleCaller EXCEPT
                            !.ret = [code |-> "flags", val |-> VNil,
                                     cat |-> result.cat, shared |-> result.shared]])
    /\ UNCHANGED <<flags, initialized, stopChan, wg, lastUpdatedAt, staleFired,
                   configVars, now, panicked, pollers, hist, evalVars>>

\* The maps the caller can make of a returned map m with one delete(m, k) or
\* one m[k] = v.
EditedMaps(m) ==
    {[k \in DOMAIN m \ {d} |-> m[k]] : d \in DOMAIN m}
        \cup {[k \in DOMAIN m \cup {"extra"} |-> IF k \in DOMAIN m THEN m[k] ELSE FlagF1]}

\* The caller adds a key to or removes a key from the map GetAllFlags
\* returned.  The map is the caller's own unless it is shared with the client.
EditReturned(p, edited) ==
    /\ Alive /\ callers[p].pc = "idle"
    /\ callers[p].ret.code = "flags"
    /\ edited \in EditedMaps(callers[p].ret.cat)
    /\ SetCaller(p, [callers[p] EXCEPT !.ret.code = "edited", !.ret.cat = edited])
    /\ flags' = IF callers[p].ret.shared THEN edited ELSE flags
    /\ UNCHANGED <<mu, initialized, stopChan, wg, lastUpdatedAt, staleFired,
                   configVars, now, panicked, pollers, hist, evalVars>>

\* GetStatus (README.md 571-587): the Status field of what it returns.
statusOf(updatedAt, clock) ==
    IF updatedAt = 0 THEN "fresh"
    ELSE IF clock - updatedAt > maxStaleAge THEN "stale" ELSE "fresh"

\* GetStatus (README.md 571-587): the Age field of what it returns.
ageOf(updatedAt, clock) == IF updatedAt = 0 THEN 0 ELSE clock - updatedAt

\* GetStatus: the body under the read lock, then the deferred RUnlock.
GetStatusRead(p) ==
    /\ Alive /\ callers[p].pc = "status_read"
    /\ mu' = [mu EXCEPT !.r = @ \ {CallerId(p)}]
    /\ SetCaller(p, [IdleCaller EXCEPT
                        !.ret = [NoRet EXCEPT
                                    !.code = statusOf(lastUpdatedAt, now),
                                    !.val = VNum(ageOf(lastUpdatedAt, now))]])
    /\ UNCHANGED <<flags, initialized, stopChan, wg, lastUpdatedAt, staleFired,
                   configVars, now, panicked, pollers, hist, evalVars>>

\* A slip: IsStale compares the age with >=.
isStale_Inclusive(updatedAt, clock) ==
    IF updatedAt = 0 THEN FALSE ELSE clock - updatedAt >= maxStaleAge

\* IsStale (README.md 561-568): what it returns.
isStale(updatedAt, clock) ==
    IF updatedAt = 0 THEN FALSE ELSE clock - updatedAt > maxStaleAge

\* IsStale: the body under the read lock, then the deferred RUnlock.
IsStaleRead(p) ==
    /\ Alive /\ callers[p].pc = "isstale_read"
    /\ mu' = [mu EXCEPT !.r = @ \ {CallerId(p)}]
    /\ SetCaller(p, [IdleCaller EXCEPT
                        !.ret = RetCode(IF isStale(lastUpdatedAt, now)
                                        THEN "true" ELSE "false")])
    /\ UNCHANGED <<flags, initialized, stopChan, wg, lastUpdatedAt, staleFired,
                   configVars, now, panicked, pollers, hist, evalVars>>

\* GetLastUpdatedAt (README.md 554-558): return c.lastUpdatedAt, then the
\* deferred RUnlock.
GetLastUpdatedAtRead(p) ==
    /\ Alive /\ callers[p].pc = "updated_read"
    /\ mu' = [mu EXCEPT !.r = @ \ {CallerId(p)}]
    /\ SetCaller(p, [IdleCaller EXCEPT
                        !.ret = [NoRet EXCEPT !.code = "time",
                                              !.val = VNum(lastUpdatedAt)]])
    /\ UNCHANGED <<flags, initialized, stopChan, wg, lastUpdatedAt, staleFired,
                   configVars, now, panicked, pollers, hist, evalVars>>

\* GetBooleanFlag (README.md 615-626): what it returns for the config that
\* getFlagConfig copied out (Absent when the key is not in the catalog).
booleanFlagResult(config, defaultValue, context) ==
    IF config = Absent THEN VBool(defaultValue)
    ELSE LET value == evaluateFlag(config, context)
         IN  IF value.t = "bool" THEN value ELSE VBool(defaultValue)

\* A slip: a value of another type is formatted instead of dropped.
stringFlagResult_Formats(config, defaultValue, context) ==
    IF config = Absent THEN VStr(defaultValue)
    ELSE VStr(Sprint(evaluateFlag(config, context)))

\* GetStringFlag (README.md 629-640)
stringFlagResult(config, defaultValue, context) ==
    IF config = Absent THEN VStr(defaultValue)
    ELSE LET value == evaluateFlag(config, context)
         IN  IF value.t = "string" THEN value ELSE VStr(defaultValue)

\* GetNumberFlag (README.md 643-662): every numeric Go type is a number here.
numberFlagResult(config, defaultValue, context) ==
    IF config = Absent THEN VNum(defaultValue)
    ELSE LET value == evaluateFlag(config, context)
         IN  IF value.t = "number" THEN value ELSE VNum(defaultValue)

\* GetJSONFlag (README.md 665-676): any value but nil is returned as it is.
jsonFlagResult(config, defaultValue, context) ==
    IF config = Absent THEN defaultValue
    ELSE LET value == evaluateFlag(config, context)
         IN  IF value # VNil THEN value ELSE defaultValue

\* getFlagConfig (README.md 607-612) reads c.flags[key] and unlocks; the
\* evaluation that follows touches no shared state.
GetFlagConfigRead(p) ==
    /\ Alive /\ callers[p].pc = "get_read"
    /\ mu' = [mu EXCEPT !.r = @ \ {CallerId(p)}]
    /\ SetCaller(p, [IdleCaller EXCEPT
                        !.ret = [NoRet EXCEPT
                                    !.code = "value",
                                    !.val = booleanFlagResult(Lookup(flags, callers[p].arg),
                                                              FALSE, CallerContext)]])
    /\ UNCHANGED <<flags, initialized, stopChan, wg, lastUpdatedAt, staleFired,
                   configVars, now, panicked, pollers, hist, evalVars>>

\* Time passes, up to the end of the run.
Tick(limit) ==
    /\ Alive /\ now < limit
    /\ now' = now + 1
    /\ UNCHANGED <<flags, mu, initialized, stopChan, wg, lastUpdatedAt, staleFired,
                   configVars, panicked, callers, pollers, hist, evalVars>>

\* One step of Initialize, Close or IsInitialized in a goroutine of P.
LifecycleStep(P) ==
    \/ \E p \in P : CallInitialize(p)
    \/ \E p \in P : InitCheck(p)
    \/ \E p \in P, o \in FetchOutcomes : InitFetch(p, o)
    \/ \E p \in P : InitStore(p)
    \/ \E p \in P : InitStoreMeta(p)
    \/ \E p \in P : InitSetInitialized(p)
    \/ \E p \in P : InitStartPolling(p)
    \/ \E p \in P : CloseChan(p)
    \/ \E p \in P : CloseWait(p)
    \/ \E p \in P : CallIsInitialized(p)
    \/ \E p \in P : IsInitializedRead(p)

\* One step of a lock-protected reader in a goroutine of P.
ReaderStep(P) ==
    \/ \E p \in P, op \in ReaderOps, key \in Keys \cup {""} :
          ReaderRLock(p, op, key)
    \/ \E p \in P : GetAllFlagsRead(p)
    \/ \E p \in P : \E edited \in EditedMaps(callers[p].ret.cat) : EditReturned(p, edited)
    \/ \E p \in P : GetStatusRead(p)
    \/ \E p \in P : IsStaleRead(p)
    \/ \E p \in P : GetLastUpdatedAtRead(p)
    \/ \E p \in P : GetFlagConfigRead(p)

\* One step of the polling goroutine that a goroutine of P started.
PollerStep(P) ==
    \/ \E k \in P : PollTick(k)
    \/ \E k \in P : PollStop(k)
    \/ \E k \in P, o \in FetchOutcomes : PollFetch(k, o)
    \/ \E k \in P : PollOnError(k)
    \/ \E k \in P : PollCheckStaleness(k)
    \/ \E k \in P : PollOnStaleReturn(k)
    \/ \E k \in P : PollStore(k)
    \/ \E k \in P : PollStoreMeta(k)

\* One step of a callback that calls the client, in the polling goroutine
\* that a goroutine of P started.
CallbackStep(P) ==
    \/ \E k \in P : PollOnErrorCalls(k)
    \/ \E k \in P : PollOnStaleCalls(k)
    \/ \E k \in P : CallbackRLock(k)
    \/ \E k \in P : CallbackRead(k)

\* The sequential program: one goroutine calls the client's methods one after
\* the other, beside the poller it starts, while time passes; the callbacks
\* may call the client.
Next ==
    \/ LifecycleStep({1})
    \/ ReaderStep({1})
    \/ PollerStep({1})
    \/ CallbackStep({1})
    \/ Tick(MaxTime)

Spec == Init /\ [][Next]_vars

\* The concurrent program: every foreground goroutine calls Initialize, Close
\* and IsInitialized in any interleaving, the first one the readers as well,
\* with both callbacks configured; the callbacks return without calling the
\* client.
ConcInit == Init /\ hasOnError /\ hasOnStale

ConcNext ==
    \/ LifecycleStep(Callers)
    \/ ReaderStep({1})
    \/ PollerStep(Callers)
    \/ Tick(ConcMaxTime)

ConcSpec == ConcInit /\ [][ConcNext]_vars

(***************************************************************************)
(* The evaluator on its own: evaluateFlag applied to a configuration and a *)
(* context drawn from bounded sets.                                        *)
(***************************************************************************)
\* The longest rule list of a configuration.
MaxRules == 2

NoPercentage == [hasPercentage |-> FALSE, percentage |-> 0]

Percent(x) == [hasPercentage |-> TRUE, percentage |-> x]

MkRule(attribute, operator, value, pct, rollValue) ==
    [attribute |-> attribute, operator |-> operator, value |-> value,
     hasPercentage |-> pct.hasPercentage, percentage |-> pct.percentage,
     rollValue |-> rollValue]

EvalRules ==
    {MkRule("plan", "equals", VStr("pro"), NoPercentage, VNil),
     MkRule("plan", "equals", VStr("pro"), Percent(50), VStr("variant")),
     MkRule("beta", "always", VNil, Percent(30), VBool(TRUE)),
     MkRule("age", "gt", VNum(18), NoPercentage, VNum(7)),
     MkRule("country", "not_in", VList(<<VStr("US"), VStr("CA")>>), Percent(100),
            VBool(FALSE))}

RECURSIVE RuleLists(_)
\* The rule lists of length n.
RuleLists(n) ==
    IF n = 0 THEN {<<>>}
    ELSE {Append(l, r) : l \in RuleLists(n - 1), r \in EvalRules}

EvalRuleLists == UNION {RuleLists(n) : n \in 0 .. MaxRules}

EvalDefaults == {VBool(TRUE), VBool(FALSE), VStr("pro"), VNum(42)}

EvalPercentages == {-5, 0, 50, 100}

EvalConfigs ==
    {[key |-> k, type |-> ty, enabled |-> en, defaultValue |-> dv, rules |-> rl,
      rolloutPercentage |-> pc] :
        k \in {"f1", "f2"}, ty \in {"BOOLEAN", "STRING", "NUMBER", "JSON"},
        en \in BOOLEAN, dv \in EvalDefaults, rl \in EvalRuleLists,
        pc \in EvalPercentages}

EvalContexts ==
    {[a \in {} |-> VNil],
     [a \in {"user_id", "plan"} |-> IF a = "user_id" THEN VStr("u1") ELSE VStr("pro")],
     [a \in {"userId", "plan", "country"} |->
          CASE a = "userId" -> VStr("u2") [] a = "plan" -> VStr("free")
            [] OTHER -> VStr("DE")],
     [a \in {"plan", "beta"} |-> IF a = "plan" THEN VStr("pro") ELSE VBool(TRUE)],
     [a \in {"user_id", "age", "attributes"} |->
          CASE a = "user_id" -> VStr("u3") [] a = "age" -> VNum(25)
            [] OTHER -> VMap([b \in {"plan", "beta"} |-> VStr("pro")])],
     [a \in {"user_id", "age", "country"} |->
          CASE a = "user_id" -> VNum(7) [] a = "age" -> VStr("15")
            [] OTHER -> VStr("US")]}

EvalInit ==
    /\ NewClient
    /\ hasOnError = FALSE
    /\ hasOnStale = FALSE
    /\ evIn \in [config : EvalConfigs, context : EvalContexts]
    /\ evOut = VNil
    /\ evPc = "ready"

\* One call of evaluateFlag(config, context).
Evaluate ==
    /\ evPc = "ready"
    /\ evOut' = evaluateFlag(evIn.config, evIn.context)
    /\ evPc' = "done"
    /\ UNCHANGED <<evIn, clientVars>>

EvalNext == Evaluate

EvalSpec == EvalInit /\ [][EvalNext]_vars

(***************************************************************************)
(* The rollout functions on their own: hashString and isInRollout applied  *)
(* to a user id, a flag key and a percentage drawn from bounded sets.      *)
(***************************************************************************)
\* How far the percentages tried reach below 0 and above 100.
PercentageMargin == 5

RolloutPercentages == (0 - PercentageMargin) .. (100 + PercentageMargin)

\* The (userID, flagKey) pairs tried.
RolloutPairs ==
    ({"u1", "u2", "u3", ""} \X {"f1", "f2"})
        \cup {<<"user-123", "flag">>, <<"user-123", "my-flag">>}

RolloutInit ==
    /\ NewClient
    /\ hasOnError = FALSE
    /\ hasOnStale = FALSE
    /\ \E pair \in RolloutPairs, pct \in RolloutPercentages :
          evIn = [userID |-> pair[1], flagKey |-> pair[2], percentage |-> pct]
    /\ evOut = VNil
    /\ evPc = "rollout_ready"

\* The flag that rolls its default value true out to a percentage of the
\* users, and the context of a user.
RolloutFlag(flagKey, percentage) ==
    [key |-> flagKey, type |-> "BOOLEAN", enabled |-> TRUE,
     defaultValue |-> VBool(TRUE), rules |-> <<>>, rolloutPercentage |-> percentage]

RolloutContext(userID) == [a \in {"user_id"} |-> VStr(userID)]

\* hashString(userID + ":" + flagKey), called twice;
\* isInRollout(userID, flagKey, percentage), and the same call at every
\* percentage tried; evaluateFlag of the rollout flag for the user, called
\* twice, and the same call at every percentage tried.
Rollout ==
    /\ evPc = "rollout_ready"
    /\ evOut' = [bucket |-> hashString(evIn.userID \o ":" \o evIn.flagKey),
                 again |-> hashString(evIn.userID \o ":" \o evIn.flagKey),
                 included |-> isInRollout(evIn.userID, evIn.flagKey, evIn.percentage),
                 includedAt |-> [q \in RolloutPercentages |->
                                    isInRollout(evIn.userID, evIn.flagKey, q)],
                 value |-> evaluateFlag(RolloutFlag(evIn.flagKey, evIn.percentage),
                                        RolloutContext(evIn.userID)),
                 valueAgain |-> evaluateFlag(RolloutFlag(evIn.flagKey, evIn.percentage),
                                             RolloutContext(evIn.userID)),
                 valueAt |-> [q \in RolloutPercentages |->
                                 evaluateFlag(RolloutFlag(evIn.flagKey, q),
                                              RolloutContext(evIn.userID))]]
    /\ evPc' = "rollout_done"
    /\ UNCHANGED <<evIn, clientVars>>

RolloutNext == Rollout

RolloutSpec == RolloutInit /\ [][RolloutNext]_vars

(***************************************************************************)
(* The typed accessors on their own: each applied to the configuration     *)
(* getFlagConfig found (or did not find) for a key, a default and a        *)
(* context drawn from bounded sets.                                        *)
(***************************************************************************)
AccessRuleLists ==
    {<<>>,
     <<MkRule("plan", "equals", VStr("pro"), NoPercentage, VStr("variant"))>>,
     <<MkRule("age", "gt", VNum(18), NoPercentage, VNum(7))>>}

AccessDefaults == EvalDefaults \cup {VMap([a \in {"x"} |-> VNum(1)])}

AccessConfigs ==
    {[key |-> "f1", type |-> ty, enabled |-> TRUE, defaultValue |-> dv,
      rules |-> rl, rolloutPercentage |-> pc] :
        ty \in {"BOOLEAN", "STRING", "NUMBER", "JSON"}, dv \in AccessDefaults,
        rl \in AccessRuleLists, pc \in {0, 50}}

\* The catalogs: the empty one, and one flag under the key "f1".
AccessCatalogs == {NoFlags} \cup {[k \in {"f1"} |-> cfg] : cfg \in AccessConfigs}

\* Each accessor with the defaults it is called with.
AccessCalls ==
    {[accessor |-> "boolean", defaultValue |-> VBool(b)] : b \in BOOLEAN}
        \cup {[accessor |-> "string", defaultValue |-> VStr(s)] : s \in {"", "fallback"}}
        \cup {[accessor |-> "number", defaultValue |-> VNum(n)] : n \in {0, 3}}
        \cup {[accessor |-> "json", defaultValue |-> v] : v \in {VNil, VStr("fallback")}}

AccessInit ==
    /\ NewClient
    /\ hasOnError = FALSE
    /\ hasOnStale = FALSE
    /\ \E call \in AccessCalls, cat \in AccessCatalogs, key \in Keys,
          ctx \in EvalContexts :
          evIn = [accessor |-> call.accessor, defaultValue |-> call.defaultValue,
                  catalog |-> cat, key |-> key, context |-> ctx]
    /\ evOut = VNil
    /\ evPc = "access_ready"

\* One call of a typed accessor: config, ok := c.flags[key], then the
\* accessor's own code.
Access ==
    /\ evPc = "access_ready"
    /\ LET config == Lookup(evIn.catalog, evIn.key)
           d == evIn.defaultValue
       IN  evOut' = CASE evIn.accessor = "boolean" ->
                             booleanFlagResult(config, d.b, evIn.context)
                      [] evIn.accessor = "string" ->
                             stringFlagResult(config, d.s, evIn.context)
                      [] evIn.accessor = "number" ->
                             numberFlagResult(config, d.n, evIn.context)
                      [] evIn.accessor = "json" ->
                             jsonFlagResult(config, d, evIn.context)
    /\ evPc' = "access_done"
    /\ UNCHANGED <<evIn, clientVars>>

AccessNext == Access

AccessSpec == AccessInit /\ [][AccessNext]_vars

(***************************************************************************)
(* matchesRule on its own: applied to a rule and a context drawn from      *)
(* bounded sets.                                                           *)
(***************************************************************************)
\* The operators of the switch (client.go 364-410).
KnownOperators == {"equals", "not_equals", "contains", "not_contains", "gt", "lt",
                   "in", "not_in", "always"}

\* The operators tried: the known ones, and two the switch has no case for.
MatchOperators == KnownOperators \cup {"regex", ""}

\* The rule attributes tried; no context has "missing" or "".
MatchAttributes == {"plan", "beta", "age", "country", "missing", ""}

MatchValues == {VStr("pro"), VNum(18), VList(<<VStr("US"), VStr("CA")>>), VNil}

MatchRules ==
    {MkRule(a, op, v, NoPercentage, VNil) :
        a \in MatchAttributes, op \in MatchOperators, v \in MatchValues}

\* The contexts of the evaluator, one whose "plan" is both at the top level
\* and nested, and one whose "attributes" entry is not a map.
MatchContexts ==
    EvalContexts
        \cup {[a \in {"plan", "attributes"} |->
                  IF a = "plan" THEN VStr("free")
                  ELSE VMap([b \in {"plan", "country"} |-> VStr("pro")])],
              [a \in {"age", "attributes"} |->
                  IF a = "age" THEN VNum(25) ELSE VStr("plan")]}

MatchInit ==
    /\ NewClient
    /\ hasOnError = FALSE
    /\ hasOnStale = FALSE
    /\ evIn \in [rule : MatchRules, context : MatchContexts]
    /\ evOut = VNil
    /\ evPc = "match_ready"

\* One call of matchesRule(rule, context).
Match ==
    /\ evPc = "match_ready"
    /\ evOut' = VBool(matchesRule(evIn.rule, evIn.context))
    /\ evPc' = "match_done"
    /\ UNCHANGED <<evIn, clientVars>>

MatchNext == Match

MatchSpec == MatchInit /\ [][MatchNext]_vars

(***************************************************************************)
(* The claims.                                                             *)
(***************************************************************************)
StartedPollers == {k \in Callers : pollers[k].pc # "unused"}

RunningPollers == {k \in Callers : pollers[k].pc \notin {"unused", "done"}}

\* C1: the catalog the readers see is exactly the payload of the most recent
\* successful fetch, and lastUpdatedAt is the time of that fetch: a failed
\* refresh changes neither, a successful one replaces the whole catalog, and
\* what GetAllFlags returned is one whole payload, never a mixture.
C1_CatalogIsLastPayload ==
    /\ flags = hist.lastPayload
    /\ lastUpdatedAt = hist.lastAt
    /\ \A p \in Callers :
          callers[p].ret.code = "flags" => callers[p].ret.cat \in Payloads \cup {NoFlags}

\* C1 happens: GetAllFlags returned catalog A, a refresh then replaced it by
\* catalog B, and the refresh after that failed and left B in place.
C1_Witness ==
    /\ callers[1].ret.code = "flags" /\ callers[1].ret.cat = CatalogA
    /\ flags = CatalogB
    /\ pollers[1].pc = "select" /\ pollers[1].done = "fail"

\* C2: between two successful fetches the stale callback is invoked at most
\* once: it has been invoked exactly once when staleFired is set (and a stale
\* callback is configured) and not at all while staleFired is clear; the
\* callback runs with staleFired set; and every successful fetch clears
\* staleFired, so that staleFired is only ever set while the catalog is older
\* than maxStaleAge.
C2_StaleOncePerEpisode ==
    /\ hist.staleInEpisode <= 1
    /\ hist.staleInEpisode = (IF staleFired /\ hasOnStale THEN 1 ELSE 0)
    /\ \A k \in Callers : pollers[k].pc = "on_stale" => staleFired
    /\ staleFired => (lastUpdatedAt # 0 /\ now - lastUpdatedAt > maxStaleAge)

\* C2 happens: the callback has fired in two episodes, once in the current
\* one, and the refresh that found the alarm already latched is over.
C2_Witness ==
    /\ hist.staleCalls = 2
    /\ hist.staleInEpisode = 1
    /\ pollers[1].pc = "select" /\ pollers[1].done = "fail"
    /\ pollers[1].chkN = 1 /\ staleFired

\* C3: as long as no fetch has succeeded and begun to store its catalog,
\* every Initialize call has returned an error: the client is not
\* initialized, no polling goroutine exists, the catalog is empty,
\* lastUpdatedAt is the zero time, and neither callback has been invoked.
C3_FailedInitializeLeavesNothing ==
    (hist.lastAt = 0 /\ \A p \in Callers : callers[p].pc # "init_meta") =>
        /\ ~initialized
        /\ StartedPollers = {} /\ wg = 0
        /\ flags = NoFlags /\ lastUpdatedAt = 0 /\ ~staleFired
        /\ ~hist.onErrorCalled /\ hist.staleCalls = 0
        /\ \A p \in Callers : callers[p].ret.code # "nil"

\* C3 happens: Initialize has returned an error with an error callback
\* configured.
C3_Witness ==
    /\ callers[1].pc = "idle" /\ callers[1].ret.code = "err"
    /\ hasOnError /\ hasOnStale
    /\ hist.lastAt = 0

\* C4: a refresh that failed has invoked the error callback exactly once (if
\* one is configured) and then made exactly one staleness check; a refresh
\* that succeeded has done neither; the staleness check comes after the
\* error callback.
C4_FailedRefreshReportsAndChecks ==
    \A k \in Callers :
        LET r == pollers[k]
            errs == IF hasOnError THEN 1 ELSE 0
        IN  /\ (r.pc = "select" /\ r.done = "fail") => (r.errN = errs /\ r.chkN = 1)
            /\ (r.pc = "select" /\ r.done = "ok") => (r.errN = 0 /\ r.chkN = 0)
            /\ r.pc \in {"fetch", "lock", "meta", "on_error"} => (r.errN = 0 /\ r.chkN = 0)
            /\ r.pc = "check_lock" => (r.errN = errs /\ r.chkN = 0)
            /\ r.pc = "on_stale" => (r.errN = errs /\ r.chkN = 1)

\* C4 happens: a refresh failed, called the error callback and checked
\* staleness, with the stale alarm raised by that check.
C4_Witness ==
    /\ pollers[1].pc = "select" /\ pollers[1].done = "fail"
    /\ pollers[1].errN = 1 /\ pollers[1].chkN = 1
    /\ hist.staleInEpisode = 1

\* The accesses of c.initialized a goroutine is about to make without the lock.
UnlockedWrite(p) == callers[p].pc = "init_set"

UnlockedRead(p) == callers[p].pc \in {"init_check", "isinit"}

\* C5: no two goroutines are ever about to access a shared field at the same
\* time, one of them writing, without a lock ordering them.
C5_NoDataRace ==
    \A p, q \in Callers :
        p # q => ~(UnlockedWrite(p) /\ (UnlockedRead(q) \/ UnlockedWrite(q)))

\* C6: once Close has returned, no polling goroutine is running and no
\* initial fetch is on its way to replacing the catalog.
C6_NothingRunsAfterClose ==
    hist.closeReturned =>
        /\ RunningPollers = {}
        /\ \A p \in Callers : callers[p].pc \notin {"init_lock", "init_meta", "init_set", "init_start"}

\* C7: at most one polling goroutine is ever started.
C7_OnePollerStarted == Cardinality(StartedPollers) <= 1

\* C8: no Close call fails.
C8_CloseNeverPanics == ~panicked

C10_DisabledReturnsOff ==
    (evPc = "done" /\ ~evIn.config.enabled) => evOut = getOffValue(evIn.config.type)

\* The outcome a rule gives when it decides: its rollValue, else the default.
RuleOutcome(config, i) ==
    IF config.rules[i].rollValue # VNil THEN config.rules[i].rollValue
    ELSE config.defaultValue

\* The positions of the rules of the evaluated configuration that qualify.
QualifyingRules ==
    {i \in 1 .. Len(evIn.config.rules) :
        ruleQualifies(evIn.config.rules[i], evIn.config, evIn.context,
                      userIDOf(evIn.context))}

C12_TargetingRuleGivesTrue ==
    (/\ evPc = "done" /\ evIn.config.enabled
     /\ evIn.config.type = "BOOLEAN"
     /\ evIn.config.defaultValue = VBool(FALSE)
     /\ evIn.config.rolloutPercentage = 0
     /\ Len(evIn.config.rules) = 1
     /\ ~evIn.config.rules[1].hasPercentage
     /\ evIn.config.rules[1].rollValue = VNil)
    => evOut = VBool(matchesRule(evIn.config.rules[1], evIn.context))

\* A rule whose percentage gate is in force.
Gated(rule) == rule.hasPercentage /\ rule.percentage < 100

\* The rules of the list that are not gated, in order.
UngatedRules(rules) == SelectSeq(rules, LAMBDA r : ~Gated(r))

\* C13: when the context yields no user id, a rule with a percentage below
\* 100 never qualifies, whatever its condition and its percentage, and the
\* walk goes on: the result is the one the configuration gives with those
\* rules removed.
C13_GatedRuleNeedsUser ==
    (evPc = "done" /\ evIn.config.enabled /\ userIDOf(evIn.context) = "") =>
        /\ \A i \in QualifyingRules : ~Gated(evIn.config.rules[i])
        /\ evOut = evaluateFlag([evIn.config EXCEPT !.rules = UngatedRules(@)],
                                evIn.context)

\* C13 happens: without a user id, the first rule matches but carries a
\* percentage whose bucket test the empty user id would have passed; it is
\* skipped and the second rule decides.
C13_Witness ==
    /\ evPc = "done" /\ evIn.config.enabled
    /\ userIDOf(evIn.context) = ""
    /\ Len(evIn.config.rules) = 2
    /\ Gated(evIn.config.rules[1])
    /\ matchesRule(evIn.config.rules[1], evIn.context)
    /\ isInRollout("", evIn.config.key, evIn.config.rules[1].percentage)
    /\ QualifyingRules = {2}
    /\ evOut = RuleOutcome(evIn.config, 2)
    /\ evOut # RuleOutcome(evIn.config, 1)

\* C14: isInRollout is false for every percentage at or below 0, true for
\* every percentage at or above 100, and in between true exactly when the
\* bucket of userID + ":" + flagKey is below the percentage.
C14_RolloutInclusion ==
    evPc = "rollout_done" =>
        /\ evIn.percentage <= 0 => ~evOut.included
        /\ evIn.percentage >= 100 => evOut.included
        /\ (0 < evIn.percentage /\ evIn.percentage < 100) =>
              (evOut.included <=> evOut.bucket < evIn.percentage)

\* C14 happens: a percentage strictly between 0 and 100 that equals the
\* bucket, so that the user is just outside the rollout.
C14_Witness ==
    /\ evPc = "rollout_done"
    /\ 0 < evIn.percentage /\ evIn.percentage < 100
    /\ evOut.bucket = evIn.percentage
    /\ ~evOut.included

RECURSIVE BigEndianMod(_, _, _)
\* The big-endian value of the byte sequence h modulo 100, by Horner's rule
\* from byte i on, given the remainder r of the bytes before i.
BigEndianMod(h, i, r) ==
    IF i > Len(h) THEN r ELSE BigEndianMod(h, i + 1, (r * 256 + h[i]) % 100)

\* C15: hashString returns the same integer on every call, and that integer
\* is the unsigned big-endian value of the first four digest bytes modulo
\* 100: at least 0 and below 100.
C15_BucketInRange ==
    evPc = "rollout_done" =>
        /\ evOut.bucket = evOut.again
        /\ evOut.bucket \in 0 .. 99
        /\ evOut.bucket =
              BigEndianMod(Sha256Prefix(evIn.userID \o ":" \o evIn.flagKey), 1, 0)

\* C15 happens: a digest whose first byte has its top bit set, where a signed
\* reading would be negative, and the bucket is in range all the same.
C15_Witness ==
    /\ evPc = "rollout_done"
    /\ Sha256Prefix(evIn.userID \o ":" \o evIn.flagKey)[1] >= 128
    /\ evOut.bucket \in 0 .. 99

\* The value is of the type the accessor returns: bool, string, float64, or
\* for the JSON accessor (interface{}) any value but nil.
OfAccessorType(accessor, value) ==
    CASE accessor = "boolean" -> value.t = "bool"
      [] accessor = "string" -> value.t = "string"
      [] accessor = "number" -> value.t = "number"
      [] accessor = "json" -> value # VNil

CatalogStale == lastUpdatedAt # 0 /\ now - lastUpdatedAt > maxStaleAge

\* A successful fetch stores its catalog in this step.
StoreStep == lastUpdatedAt' # lastUpdatedAt

\* A staleness check is made in this step.
CheckStep == \E k \in Callers : pollers'[k].chkN = pollers[k].chkN + 1

\* C17 as stated: with a stale callback configured, every stale episode, when
\* the next successful fetch ends it, has seen exactly one invocation of the
\* callback.
C17_EveryEpisodeFiresOnce ==
    [][(hasOnStale /\ CatalogStale /\ StoreStep) => hist.staleInEpisode = 1]_vars

\* C17, amended: a stale episode sees at most one invocation of the stale
\* callback, and exactly one from the first staleness check (made by a
\* failed refresh) that finds the catalog stale; an episode in which no
\* refresh fails sees none.  The callback is invoked only while the catalog
\* is stale, with the lastUpdatedAt of the last successful fetch and an age
\* above maxStaleAge that is the elapsed time at the call.
C17_CheckedEpisodeFiresOnce ==
    /\ [](/\ hist.staleInEpisode <= 1
          /\ hist.staleInEpisode = 1 => CatalogStale
          /\ \A k \in Callers :
                pollers[k].pc = "on_stale" =>
                    /\ pollers[k].stale.at = hist.lastAt
                    /\ pollers[k].stale.at = lastUpdatedAt
                    /\ pollers[k].stale.age > maxStaleAge
                    /\ pollers[k].stale.age <= now - lastUpdatedAt)
    /\ [][(hasOnStale /\ CatalogStale /\ CheckStep)
            => (hist'.staleInEpisode = 1 /\ staleFired')]_vars
    /\ [][\A k \in Callers :
              (pollers[k].pc # "on_stale" /\ pollers'[k].pc = "on_stale")
                  => pollers'[k].stale.age = now - lastUpdatedAt]_vars

\* C17 happens: the stale callback is running in a second stale episode, with
\* the time of the refresh that ended the first one.
C17_Witness ==
    /\ pollers[1].pc = "on_stale"
    /\ hist.staleCalls = 2
    /\ pollers[1].stale.at = lastUpdatedAt
    /\ lastUpdatedAt > 1
    /\ pollers[1].stale.age > maxStaleAge

\* A task has a request on the network: the initial fetch of an Initialize
\* call or the fetch of a background refresh.
Fetching(task) ==
    \/ \E p \in Callers : task = CallerId(p) /\ callers[p].pc = "init_fetch"
    \/ \E k \in Callers : task = PollerId(k) /\ pollers[k].pc = "fetch"

Tasks == {CallerId(p) : p \in Callers} \cup {PollerId(k) : k \in Callers}

\* Poller k is inside an invocation of the stale callback, or of the error
\* callback: the callback runs, or a method of the client it called does.
InStaleCallback(k) ==
    pollers[k].pc \in {"on_stale", "on_stale_rlock", "on_stale_read", "on_stale_ret"}

InErrorCallback(k) ==
    /\ hasOnError
    /\ pollers[k].pc \in {"on_error", "on_error_rlock", "on_error_read", "on_error_ret"}

\* C18: a task with a fetch in flight holds the lock in neither mode; the
\* write lock is only ever held by a task inside the store section of a
\* fetch that has completed or inside the staleness check, never across
\* network I/O, so a reader never waits for a fetch to finish.
C18_NoLockAcrossFetch ==
    /\ \A task \in Tasks : Fetching(task) => (mu.w # task /\ task \notin mu.r)
    /\ \A p \in Callers : mu.w = CallerId(p) => callers[p].pc = "init_meta"
    /\ \A k \in Callers :
          mu.w = PollerId(k) => (pollers[k].pc = "meta" \/ InStaleCallback(k))

\* C18 happens: while a background refresh is in flight, a reader holds the
\* shared lock and is reading the catalog of the last successful fetch.
C18_Witness ==
    /\ Fetching(PollerId(1))
    /\ callers[1].pc = "get_read" /\ CallerId(1) \in mu.r
    /\ flags = CatalogB /\ flags = hist.lastPayload

\* A successful fetch has written the catalog and not yet the metadata.
StoreInProgress ==
    \/ \E p \in Callers : callers[p].pc = "init_meta"
    \/ \E k \in Callers : pollers[k].pc = "meta"

AllFlagsReturns(p) == callers[p].pc = "all_read" /\ callers'[p].pc = "idle"

\* C20: the map GetAllFlags returns has exactly the keys of the catalog of
\* the most recent successful fetch, each with a FlagConfig equal to the
\* fetched one in every field; it is one whole catalog, never a mixture of
\* two; and a key the caller then adds to or removes from the returned map
\* leaves the client's catalog as it was.
C20_AllFlagsIsAnOwnSnapshot ==
    /\ [][\A p \in Callers :
              AllFlagsReturns(p) =>
                  /\ DOMAIN callers'[p].ret.cat = DOMAIN hist.lastPayload
                  /\ \A k \in DOMAIN hist.lastPayload :
                        callers'[p].ret.cat[k] = hist.lastPayload[k]
                  /\ ~StoreInProgress]_vars
    /\ [](\A p \in Callers :
              callers[p].ret.code = "flags" =>
                  callers[p].ret.cat \in Payloads \cup {NoFlags})
    /\ [][\A p \in Callers :
              (callers[p].ret.code = "flags" /\ callers'[p].ret.code = "edited")
                  => (flags' = flags /\ callers'[p].ret.cat # flags')]_vars
    /\ [](flags = hist.lastPayload)

\* C20 happens: GetAllFlags returned the catalog a refresh had stored, the
\* caller added a key to the returned map, and the client's catalog is still
\* the fetched one.
C20_Witness ==
    /\ callers[1].ret.code = "edited"
    /\ "extra" \in DOMAIN callers[1].ret.cat
    /\ "f2" \in DOMAIN callers[1].ret.cat
    /\ flags = CatalogB /\ hist.lastAt > 1
    /\ pollers[1].pc = "select" /\ pollers[1].done = "ok"

\* Goroutine p's GetStatus, or its IsStale, returns in this step.
GetStatusReturns(p) == callers[p].pc = "status_read" /\ callers'[p].pc = "idle"
IsStaleReturns(p) == callers[p].pc = "isstale_read" /\ callers'[p].pc = "idle"

\* A fetch has succeeded and the catalog is older than maxStaleAge, at the
\* time of the read.
StaleAtRead == hist.lastAt # 0 /\ now - lastUpdatedAt > maxStaleAge

\* C21: staleness is computed at read time from lastUpdatedAt only.  GetStatus
\* reports "stale" exactly when a fetch has succeeded and now - lastUpdatedAt
\* exceeds maxStaleAge, and "fresh" otherwise, with age 0 when no fetch has
\* ever succeeded and the age since the last success afterwards; IsStale
\* returns true exactly in the states where GetStatus reports "stale"; and
\* neither call changes staleFired, the time of the last success or the
\* catalog, nor invokes a callback.
C21_StalenessComputedAtRead ==
    /\ [][\A p \in Callers :
              GetStatusReturns(p) =>
                  /\ callers'[p].ret.code = (IF StaleAtRead THEN "stale" ELSE "fresh")
                  /\ callers'[p].ret.val =
                         VNum(IF hist.lastAt = 0 THEN 0 ELSE now - hist.lastAt)
                  /\ staleFired' = staleFired /\ lastUpdatedAt' = lastUpdatedAt
                  /\ flags' = flags /\ pollers' = pollers
                  /\ hist' = hist]_vars
    /\ [][\A p \in Callers :
              IsStaleReturns(p) =>
                  /\ callers'[p].ret.code = (IF StaleAtRead THEN "true" ELSE "false")
                  /\ (callers'[p].ret.code = "true")
                         <=> (statusOf(lastUpdatedAt, now) = "stale")
                  /\ staleFired' = staleFired /\ lastUpdatedAt' = lastUpdatedAt
                  /\ flags' = flags /\ pollers' = pollers
                  /\ hist' = hist]_vars
    /\ [][\A p \in Callers :
              (callers[p].pc = "idle"
                  /\ callers'[p].pc \in {"status_read", "isstale_read"})
                  => (staleFired' = staleFired /\ pollers' = pollers /\ hist' = hist)]_vars

\* C21 happens: GetStatus has just reported "stale", with the age of a catalog
\* that a fetch once stored, while no failed poll has set staleFired and no
\* stale callback has ever run.
C21_Witness ==
    /\ callers[1].pc = "idle" /\ callers[1].ret.code = "stale"
    /\ callers[1].ret.val = VNum(now - lastUpdatedAt)
    /\ hist.lastAt # 0 /\ now - hist.lastAt > maxStaleAge
    /\ ~staleFired /\ hist.staleCalls = 0

\* The off value of a flag type, as the specification lists them.
OffValueOfType(type) ==
    CASE type = "BOOLEAN" -> VBool(FALSE)
      [] type = "STRING" -> VStr("")
      [] type = "NUMBER" -> VNum(0)
      [] type = "JSON" -> VNil

\* inRollout(userID, flagKey, percentage) for a percentage above 0: everyone
\* at 100 and more, else the users whose bucket is below the percentage.
InRolloutAbove0(userID, flagKey, percentage) ==
    \/ percentage >= 100
    \/ BigEndianMod(Sha256Prefix(userID \o ":" \o flagKey), 1, 0) < percentage

\* C22: when an enabled flag has no qualifying rule, and rolloutPercentage is
\* above 0 and the user id is not empty, evaluateFlag returns the default
\* value for a user inside the rollout and the off value of the flag's type
\* (false, "", 0, nil) for a user outside it; with rolloutPercentage at or
\* below 0, or with an empty user id whatever the percentage, it returns the
\* default value.
C22_GlobalRollout ==
    (evPc = "done" /\ evIn.config.enabled /\ QualifyingRules = {}) =>
        LET config == evIn.config
            userID == userIDOf(evIn.context)
        IN  evOut = IF config.rolloutPercentage > 0 /\ userID # ""
                    THEN IF InRolloutAbove0(userID, config.key, config.rolloutPercentage)
                         THEN config.defaultValue
                         ELSE OffValueOfType(config.type)
                    ELSE config.defaultValue

\* C22 happens: a flag with rules of which none qualifies, a rollout of 50 and
\* a user whose bucket is 50 or more: the off value is returned, and it is not
\* the default.
C22_Witness ==
    /\ evPc = "done" /\ evIn.config.enabled
    /\ Len(evIn.config.rules) > 0 /\ QualifyingRules = {}
    /\ evIn.config.rolloutPercentage = 50
    /\ userIDOf(evIn.context) # ""
    /\ hashString(userIDOf(evIn.context) \o ":" \o evIn.config.key) >= 50
    /\ evOut = OffValueOfType(evIn.config.type)
    /\ evOut # evIn.config.defaultValue

\* C23: a rule whose operator is "always" matches every context, whatever its
\* attribute and value and whatever the context contains.
C23_AlwaysMatches ==
    (evPc = "match_done" /\ evIn.rule.operator = "always") => evOut = VBool(TRUE)

\* The rule's attribute is a key of the context.
AtTopLevel == evIn.rule.attribute \in DOMAIN evIn.context

\* The context has a nested mapping under "attributes" with the rule's
\* attribute as a key.
InNested ==
    /\ "attributes" \in DOMAIN evIn.context
    /\ evIn.context["attributes"].t = "map"
    /\ evIn.rule.attribute \in DOMAIN evIn.context["attributes"].m

\* The value the rule's condition is tested on, when there is one.
FoundValue ==
    IF AtTopLevel THEN evIn.context[evIn.rule.attribute]
    ELSE evIn.context["attributes"].m[evIn.rule.attribute]

\* C24: attribute lookup fails closed for every operator.  A rule matches
\* only if its attribute is found at the top level of the context or, when it
\* is absent there, in the nested context["attributes"] mapping; found in
\* neither, the rule does not match, whatever the operator (not_equals,
\* not_contains, not_in and always too); the top-level value is the one
\* tested when both are present; and a rule with an operator outside the
\* fixed set never matches.
C24_LookupFailsClosed ==
    evPc = "match_done" =>
        /\ evOut = VBool(TRUE) => (AtTopLevel \/ InNested)
        /\ ~(AtTopLevel \/ InNested) => evOut = VBool(FALSE)
        /\ ((AtTopLevel \/ InNested) /\ evIn.rule.operator = "equals")
              => evOut = VBool(Sprint(FoundValue) = Sprint(evIn.rule.value))
        /\ ((AtTopLevel \/ InNested) /\ evIn.rule.operator = "not_equals")
              => evOut = VBool(Sprint(FoundValue) # Sprint(evIn.rule.value))
        /\ evIn.rule.operator \notin KnownOperators => evOut = VBool(FALSE)

\* C24 happens: a not_in rule whose attribute is in neither place, so that no
\* item of its list equals the (missing) value, and the rule does not match.
C24_Witness ==
    /\ evPc = "match_done"
    /\ evIn.rule.operator = "not_in" /\ evIn.rule.value.t = "list"
    /\ ~AtTopLevel /\ ~InNested
    /\ "attributes" \in DOMAIN evIn.context
    /\ evOut = VBool(FALSE)

\* A store of lastUpdatedAt and staleFired ends in this step: the last step
\* of a successful fetch.
FetchSucceeds ==
    \/ \E p \in Callers : callers[p].pc = "init_meta" /\ callers'[p].pc # "init_meta"
    \/ \E k \in Callers : pollers[k].pc = "meta" /\ pollers'[k].pc # "meta"

\* A poller's checkStaleness takes its step.
ChecksStaleness ==
    \E k \in Callers : pollers[k].pc = "check_lock" /\ pollers'[k].pc # "check_lock"

\* C25: in every reachable state, staleFired implies that a fetch has
\* succeeded and that the cached catalog is stale now (the age since
\* lastUpdatedAt exceeds maxStaleAge, so IsStale and GetStatus would say so);
\* staleFired is false right after every successful fetch; and it is set by
\* the staleness check of a failed refresh only, never by a read or by a
\* successful refresh.
C25_StaleFiredMeansStale ==
    /\ [](staleFired =>
              /\ hist.lastAt # 0 /\ lastUpdatedAt = hist.lastAt
              /\ now - lastUpdatedAt > maxStaleAge
              /\ isStale(lastUpdatedAt, now)
              /\ statusOf(lastUpdatedAt, now) = "stale")
    /\ [][FetchSucceeds => ~staleFired']_vars
    /\ [][(~staleFired /\ staleFired') => (ChecksStaleness /\ ~FetchSucceeds)]_vars

\* C25 happens: a failed refresh has set staleFired on a catalog that a fetch
\* stored more than maxStaleAge ago, and GetStatus has reported it stale.
C25_Witness ==
    /\ staleFired
    /\ hist.lastAt # 0 /\ now - hist.lastAt > maxStaleAge
    /\ pollers[1].pc = "select" /\ pollers[1].done = "fail"
    /\ callers[1].pc = "idle" /\ callers[1].ret.code = "stale"

\* The positions of a goroutine inside a reader, between RLock and RUnlock.
ReadPcs == {op \o "_read" : op \in ReaderOps}

\* Goroutine p's reader call (a typed accessor, GetAllFlags, GetStatus,
\* IsStale or GetLastUpdatedAt) gets its read lock, or returns, in this step.
ReaderEnters(p) == callers[p].pc = "idle" /\ callers'[p].pc \in ReadPcs
ReaderCompletes(p) == callers[p].pc \in ReadPcs /\ callers'[p].pc = "idle"

\* C26: the stale callback runs while the poller holds the client's exclusive
\* lock.  From the start to the end of an invocation of the stale callback no
\* reader call (typed accessor, GetAllFlags, GetStatus, IsStale,
\* GetLastUpdatedAt) is inside its locked section, gets the lock or
\* completes.  A stale callback that itself calls one of these methods on the
\* same client never gets the read lock, so it never returns: from then on
\* the poller stays where it is with the lock held, its wg.Done() never
\* runs, and no Close returns.  The error callback runs with the lock
\* released: the poller holds it in neither mode while the callback runs, and
\* holds only the read lock inside a reader the callback called.
C26_StaleCallbackHoldsLock ==
    /\ [](\A k \in Callers :
              InStaleCallback(k) =>
                  /\ mu.w = PollerId(k) /\ mu.r = {}
                  /\ \A p \in Callers : callers[p].pc \notin ReadPcs)
    /\ [][\A k \in Callers :
              InStaleCallback(k) =>
                  \A p \in Callers : ~ReaderEnters(p) /\ ~ReaderCompletes(p)]_vars
    /\ [][\A k \in Callers :
              pollers[k].pc = "on_stale_rlock" =>
                  /\ pollers'[k] = pollers[k]
                  /\ mu' = mu /\ wg' = wg /\ wg > 0
                  /\ hist'.closeReturned = hist.closeReturned
                  /\ \A p \in Callers :
                        callers[p].pc = "close_wait" => callers'[p].pc = "close_wait"]_vars
    /\ [](\A k \in Callers : pollers[k].pc \notin {"on_stale_read", "on_stale_ret"})
    /\ [](\A k \in Callers :
              InErrorCallback(k) =>
                  /\ mu.w # PollerId(k)
                  /\ (PollerId(k) \in mu.r) <=> (pollers[k].pc = "on_error_read"))

\* C26 happens: the stale callback has called GetStatus and waits for the read
\* lock under the poller's own write lock, Close has closed the stop channel
\* and waits for the poller, and time has passed since the callback began.
C26_Witness ==
    /\ pollers[1].pc = "on_stale_rlock" /\ mu.w = PollerId(1)
    /\ callers[1].pc = "close_wait" /\ stopChan = "closed" /\ wg = 1
    /\ now > pollers[1].stale.at + pollers[1].stale.age
    /\ hist.onErrorCalled

\* C27: rollout inclusion is monotonic in the percentage and stable across
\* calls.  For every user id, flag key and percentages p <= q, a user inside
\* the rollout at p is inside it at q; the same call gives the same answer
\* again, and two evaluations of the same flag configuration with the same
\* context return the same value; so a user who is inside the rollout and is
\* served the default value at one percentage is served it at every higher
\* percentage.
C27_RolloutMonotonic ==
    evPc = "rollout_done" =>
        /\ \A p, q \in RolloutPercentages :
              (p <= q /\ evOut.includedAt[p]) => evOut.includedAt[q]
        /\ evOut.included = evOut.includedAt[evIn.percentage]
        /\ evOut.value = evOut.valueAgain
        /\ evOut.value = evOut.valueAt[evIn.percentage]
        /\ \A q \in RolloutPercentages :
              (evIn.percentage <= q /\ evOut.included)
                  => (evOut.valueAt[q] = evOut.value /\ evOut.value = VBool(TRUE))

\* C27 happens: a user outside the rollout at 10 percent, served false there,
\* who is inside it at the percentage evaluated, below 100, and at every
\* higher one, and is served true.
C27_Witness ==
    /\ evPc = "rollout_done"
    /\ evIn.userID # "" /\ evIn.percentage \in 11 .. 99
    /\ ~evOut.includedAt[10] /\ evOut.valueAt[10] = VBool(FALSE)
    /\ evOut.included /\ evOut.value = VBool(TRUE)
    /\ evOut.includedAt[evIn.percentage + 1]

====
